---- MODULE Spec2Model ----
(***************************************************************************)
(* Model of the Instagram-story image converter (lib/imageConverter.ts,    *)
(* in its two variants: centre-crop and blurred-pad), as one convertImage  *)
(* call after another.  Every step of convertImage between two suspension *)
(* points is an action; the platform (createImageBitmap, getContext,       *)
(* toBlob, Date) answers nondeterministically.                             *)
(*                                                                         *)
(* Numbers that the code keeps as floating point are kept here as exact    *)
(* rationals [n, d] in lowest terms: the rectangle arithmetic is the       *)
(* code's, without IEEE rounding.                                          *)
(***************************************************************************)
EXTENDS Integers, Sequences, FiniteSets, TLC

\* ------------------------------------------------------------------ bounds
\* File sizes tried: MAX_FILE_SIZE - SizeSlack .. MAX_FILE_SIZE + SizeSlack.
SizeSlack == 1
\* Decoded sizes tried around the ceiling: MAX_PIXEL_DIMENSION +- DimSlack.
DimSlack == 1
\* Small source sizes tried by the geometry specification: 1 .. SmallDim.
SmallDim == 6
\* convertImage calls the page model lets be pending at once
MaxInFlight == 2

\* --------------------------------------------------------------- constants
OUTPUT_WIDTH == 1080
OUTPUT_HEIGHT == 1920
\* JPEG_QUALITY = 0.9, kept in hundredths
JPEG_QUALITY == 90
BLUR_AMOUNT == 30
MAX_FILE_SIZE == 10 * 1024 * 1024
MAX_PIXEL_DIMENSION == 4096
ALLOWED_MIME_TYPES == <<"image/jpeg", "image/png">>

\* --------------------------------------------------------------- rationals
RECURSIVE Gcd(_, _)
Gcd(a, b) == IF b = 0 THEN a ELSE Gcd(b, a % b)

Abs(a) == IF a < 0 THEN -a ELSE a

\* n/d in lowest terms with a positive denominator
Q(n, d) ==
  LET s == IF d < 0 THEN -1 ELSE 1
      g == Gcd(Abs(n), Abs(d))
  IN  [n |-> (s * n) \div g, d |-> (s * d) \div g]

QInt(k) == [n |-> k, d |-> 1]

QNeg(a) == [n |-> -a.n, d |-> a.d]

QAdd(a, b) ==
  LET l == (a.d \div Gcd(a.d, b.d)) * b.d
  IN  Q(a.n * (l \div a.d) + b.n * (l \div b.d), l)

QSub(a, b) == QAdd(a, QNeg(b))

QMul(a, b) ==
  LET g1 == Gcd(Abs(a.n), b.d)
      g2 == Gcd(Abs(b.n), a.d)
  IN  Q((a.n \div g1) * (b.n \div g2), (a.d \div g2) * (b.d \div g1))

\* b is never zero where the code divides
QDiv(a, b) == QMul(a, Q(b.d, b.n))

QLt(a, b) ==
  LET l == (a.d \div Gcd(a.d, b.d)) * b.d
  IN  a.n * (l \div a.d) < b.n * (l \div b.d)

QLe(a, b) == a = b \/ QLt(a, b)

\* ------------------------------------------------------------ null values
NoFile == [null |-> TRUE]
NoError == [null |-> TRUE]
NoBitmap == [null |-> TRUE]
NoCanvas == [null |-> TRUE]
NoResult == [null |-> TRUE]
NoFailure == [null |-> TRUE]
NoBlob == [null |-> TRUE]
NoUrl == [null |-> TRUE]
NoDownload == [null |-> TRUE]
\* selectedFileName null: the page only tests it for truthiness, as it would ""
NoName == ""

\* ---------------------------------------------------------- pure functions
\* Array.prototype.includes over ALLOWED_MIME_TYPES: strict equality
Includes(seq, v) == \E i \in 1..Len(seq) : seq[i] = v

\* validateFile with the two checks in the other order
validateFile_MimeFirst(file) ==
  IF ~Includes(ALLOWED_MIME_TYPES, file.type)
  THEN [type |-> "INVALID_MIME_TYPE", allowed |-> ALLOWED_MIME_TYPES, actual |-> file.type]
  ELSE IF file.size > MAX_FILE_SIZE
       THEN [type |-> "FILE_TOO_LARGE", maxSize |-> MAX_FILE_SIZE, actualSize |-> file.size]
       ELSE NoError

\* validateFile without the check of the declared type
validateFile_SizeOnly(file) ==
  IF file.size > MAX_FILE_SIZE
  THEN [type |-> "FILE_TOO_LARGE", maxSize |-> MAX_FILE_SIZE, actualSize |-> file.size]
  ELSE NoError

validateFile(file) ==
  IF file.size > MAX_FILE_SIZE
  THEN [type |-> "FILE_TOO_LARGE", maxSize |-> MAX_FILE_SIZE, actualSize |-> file.size]
  ELSE IF ~Includes(ALLOWED_MIME_TYPES, file.type)
       THEN [type |-> "INVALID_MIME_TYPE", allowed |-> ALLOWED_MIME_TYPES, actual |-> file.type]
       ELSE NoError

\* validateDimensions with && for ||
validateDimensions_Both(width, height) ==
  IF width > MAX_PIXEL_DIMENSION /\ height > MAX_PIXEL_DIMENSION
  THEN [type |-> "PIXEL_EXCEEDED", maxDimension |-> MAX_PIXEL_DIMENSION,
        width |-> width, height |-> height]
  ELSE NoError

validateDimensions(width, height) ==
  IF width > MAX_PIXEL_DIMENSION \/ height > MAX_PIXEL_DIMENSION
  THEN [type |-> "PIXEL_EXCEEDED", maxDimension |-> MAX_PIXEL_DIMENSION,
        width |-> width, height |-> height]
  ELSE NoError

outputAspect == QDiv(QInt(OUTPUT_WIDTH), QInt(OUTPUT_HEIGHT))

inputAspect(sourceWidth, sourceHeight) == QDiv(QInt(sourceWidth), QInt(sourceHeight))

\* the cover selection with the taller branch scaling the source height
\* where the code scales the source width
CoverRect_HeightBased(sourceWidth, sourceHeight) ==
  IF QLt(outputAspect, inputAspect(sourceWidth, sourceHeight))
  THEN LET srcHeight == QInt(sourceHeight)
           srcWidth == QMul(QInt(sourceHeight), outputAspect)
       IN  [x |-> QDiv(QSub(QInt(sourceWidth), srcWidth), QInt(2)),
            y |-> QInt(0), w |-> srcWidth, h |-> srcHeight]
  ELSE LET srcWidth == QInt(sourceWidth)
           srcHeight == QDiv(QInt(sourceHeight), outputAspect)
       IN  [x |-> QInt(0),
            y |-> QDiv(QSub(QInt(sourceHeight), srcHeight), QInt(2)),
            w |-> srcWidth, h |-> srcHeight]

\* the cover selection with * and / by outputAspect exchanged
CoverRect_Inverted(sourceWidth, sourceHeight) ==
  IF QLt(outputAspect, inputAspect(sourceWidth, sourceHeight))
  THEN LET srcHeight == QInt(sourceHeight)
           srcWidth == QDiv(QInt(sourceHeight), outputAspect)
       IN  [x |-> QDiv(QSub(QInt(sourceWidth), srcWidth), QInt(2)),
            y |-> QInt(0), w |-> srcWidth, h |-> srcHeight]
  ELSE LET srcWidth == QInt(sourceWidth)
           srcHeight == QMul(QInt(sourceWidth), outputAspect)
       IN  [x |-> QInt(0),
            y |-> QDiv(QSub(QInt(sourceHeight), srcHeight), QInt(2)),
            w |-> srcWidth, h |-> srcHeight]

\* the cover selection: the source rectangle of the crop variant, and of the
\* background layer of the blur variant
CoverRect(sourceWidth, sourceHeight) ==
  IF QLt(outputAspect, inputAspect(sourceWidth, sourceHeight))
  THEN LET srcHeight == QInt(sourceHeight)
           srcWidth == QMul(QInt(sourceHeight), outputAspect)
       IN  [x |-> QDiv(QSub(QInt(sourceWidth), srcWidth), QInt(2)),
            y |-> QInt(0), w |-> srcWidth, h |-> srcHeight]
  ELSE LET srcWidth == QInt(sourceWidth)
           srcHeight == QDiv(QInt(sourceWidth), outputAspect)
       IN  [x |-> QInt(0),
            y |-> QDiv(QSub(QInt(sourceHeight), srcHeight), QInt(2)),
            w |-> srcWidth, h |-> srcHeight]

\* the contain selection with the comparison of the aspects reversed
FgDestRect_Reversed(sourceWidth, sourceHeight) ==
  LET wider == QLt(inputAspect(sourceWidth, sourceHeight), outputAspect)
      fgDestWidth == IF wider THEN QInt(OUTPUT_WIDTH)
                     ELSE QMul(QInt(OUTPUT_HEIGHT), inputAspect(sourceWidth, sourceHeight))
      fgDestHeight == IF wider
                      THEN QDiv(QInt(OUTPUT_WIDTH), inputAspect(sourceWidth, sourceHeight))
                      ELSE QInt(OUTPUT_HEIGHT)
  IN  [x |-> QDiv(QSub(QInt(OUTPUT_WIDTH), fgDestWidth), QInt(2)),
       y |-> QDiv(QSub(QInt(OUTPUT_HEIGHT), fgDestHeight), QInt(2)),
       w |-> fgDestWidth, h |-> fgDestHeight]

\* the contain selection: the destination rectangle of the foreground layer
FgDestRect(sourceWidth, sourceHeight) ==
  LET wider == QLt(outputAspect, inputAspect(sourceWidth, sourceHeight))
      fgDestWidth == IF wider THEN QInt(OUTPUT_WIDTH)
                     ELSE QMul(QInt(OUTPUT_HEIGHT), inputAspect(sourceWidth, sourceHeight))
      fgDestHeight == IF wider
                      THEN QDiv(QInt(OUTPUT_WIDTH), inputAspect(sourceWidth, sourceHeight))
                      ELSE QInt(OUTPUT_HEIGHT)
  IN  [x |-> QDiv(QSub(QInt(OUTPUT_WIDTH), fgDestWidth), QInt(2)),
       y |-> QDiv(QSub(QInt(OUTPUT_HEIGHT), fgDestHeight), QInt(2)),
       w |-> fgDestWidth, h |-> fgDestHeight]

FullRect(width, height) ==
  [x |-> QInt(0), y |-> QInt(0), w |-> QInt(width), h |-> QInt(height)]

\* the drawImage calls of convertToStorySize, in order, for each variant
CropDraws(sourceWidth, sourceHeight) ==
  << [filter |-> "none",
      src |-> CoverRect(sourceWidth, sourceHeight),
      dest |-> FullRect(OUTPUT_WIDTH, OUTPUT_HEIGHT)] >>

BlurDraws(sourceWidth, sourceHeight) ==
  << [filter |-> "blur",
      src |-> CoverRect(sourceWidth, sourceHeight),
      dest |-> [x |-> QInt(-BLUR_AMOUNT), y |-> QInt(-BLUR_AMOUNT),
                w |-> QInt(OUTPUT_WIDTH + BLUR_AMOUNT * 2),
                h |-> QInt(OUTPUT_HEIGHT + BLUR_AMOUNT * 2)]],
     [filter |-> "none",
      src |-> FullRect(sourceWidth, sourceHeight),
      dest |-> FgDestRect(sourceWidth, sourceHeight)] >>

\* String(n).padStart(2, "0")
pad(n) == IF n < 10 THEN "0" \o ToString(n) ELSE ToString(n)

\* now: the fields Date's getters return (month is 0-based)
generateFilename(now) ==
  LET dateStr == ToString(now.year) \o pad(now.month + 1) \o pad(now.date)
      timeStr == pad(now.hours) \o pad(now.minutes) \o pad(now.seconds)
  IN  "story_" \o dateStr \o "_" \o timeStr \o ".jpg"

\* e instanceof Error ? e.message : "Unknown error"
MessageOf(e) == IF e.isError THEN e.message ELSE "Unknown error"

\* ------------------------------------------------------------ environment
\* which variant of the library is built: centre-crop or blurred-pad
Modes == {"crop", "blur"}

FileSizes == (MAX_FILE_SIZE - SizeSlack) .. (MAX_FILE_SIZE + SizeSlack)
MimeTypes == {"image/jpeg", "image/png", "image/gif", "IMAGE/JPEG"}
Files == {NoFile} \cup [size : FileSizes, type : MimeTypes]

\* sizes createImageBitmap may report
BitmapDims ==
  {OUTPUT_WIDTH, OUTPUT_HEIGHT}
    \cup ((MAX_PIXEL_DIMENSION - DimSlack) .. (MAX_PIXEL_DIMENSION + DimSlack))

\* what a platform call may throw: an Error, or a value that is not an Error
DecodeErrors ==
  {[isError |-> TRUE, message |-> "The source image could not be decoded."],
   [isError |-> FALSE, message |-> ""]}
ContextError == [isError |-> TRUE, message |-> "Canvas context not available"]
BlobError == [isError |-> TRUE, message |-> "Failed to create blob"]

Instants ==
  {[year |-> 2024, month |-> 2, date |-> 5, hours |-> 9, minutes |-> 7, seconds |-> 2],
   [year |-> 2025, month |-> 11, date |-> 31, hours |-> 23, minutes |-> 59, seconds |-> 59]}

ErrorTypes == {"NO_FILE", "FILE_TOO_LARGE", "INVALID_MIME_TYPE", "PIXEL_EXCEEDED",
               "DECODE_FAILED", "CONVERSION_FAILED"}
Stages == {"validate", "decode", "guard", "composite", "encode", "name"}

\* ------------------------------------------------------------------ state
VARIABLES
  mode,       \* the variant built
  pc,         \* where the current convertImage call stands
  file,       \* its argument
  bitmap,     \* the ImageBitmap loadImage returned, with its count of close()
  canvas,     \* the canvas convertToStorySize returned
  blob,       \* the Blob toBlob's callback delivered
  calls,      \* the helpers the call has invoked so far, in order
  result,     \* the ConversionResult returned
  settled,    \* the returned promise: pending, fulfilled or rejected
  failure,    \* the stage that failed and what it returned or threw
  producers,  \* over all calls so far: the stages that produced each variant
  status,            \* page: idle, processing, success or error
  pageError,         \* page: the error state
  selectedFileName,  \* page: the name shown, NoName for null
  previewUrl,        \* page: the object URL of the preview
  inputFile,         \* page: fileInputRef.current.files[0]
  inflight,          \* page: the convertImage calls handleConvert awaits, oldest first
  downloaded         \* page: the arguments of the last downloadBlob

pageVars == <<status, pageError, selectedFileName, previewUrl, inputFile, inflight, downloaded>>

vars == <<mode, pc, file, bitmap, canvas, blob, calls, result, settled, failure, producers,
          pageVars>>

\* the page as first rendered
PageInit ==
  /\ status = "idle"
  /\ pageError = NoError
  /\ selectedFileName = NoName
  /\ previewUrl = NoUrl
  /\ inputFile = NoFile
  /\ inflight = <<>>
  /\ downloaded = NoDownload

\* the pipeline stage each position of convertImage belongs to
StageOf(at) ==
  CASE at \in {"entry", "validate"} -> "validate"
    [] at \in {"load", "awaitDecode"} -> "decode"
    [] at = "dims" -> "guard"
    [] at = "convert" -> "composite"
    [] at \in {"toBlob", "awaitEncode"} -> "encode"
    [] OTHER -> "name"

\* the catch clauses had loadImage been awaited outside its try block
CatchOf_DecodeOutsideTry(at) ==
  CASE at \in {"convert", "toBlob", "awaitEncode", "name"} -> "CONVERSION_FAILED"
    [] OTHER -> "NONE"

\* the catch clauses had one try block enclosed decode, composite and encode
CatchOf_OneTry(at) ==
  CASE at \in {"awaitDecode", "convert", "toBlob", "awaitEncode", "name"} -> "CONVERSION_FAILED"
    [] OTHER -> "NONE"

\* the variant the catch clause around a position builds; NONE outside any try
CatchOf(at) ==
  CASE at = "awaitDecode" -> "DECODE_FAILED"
    [] at \in {"convert", "toBlob", "awaitEncode", "name"} -> "CONVERSION_FAILED"
    [] OTHER -> "NONE"

Init ==
  /\ mode \in Modes
  /\ pc = "idle"
  /\ file = NoFile
  /\ bitmap = NoBitmap
  /\ canvas = NoCanvas
  /\ blob = NoBlob
  /\ calls = <<>>
  /\ result = NoResult
  /\ settled = "pending"
  /\ failure = NoFailure
  /\ producers = [t \in ErrorTypes |-> {}]
  /\ PageInit

\* return { success: false, error }: the error a stage returned or a catch built
Fail(error, cause) ==
  /\ result' = [success |-> FALSE, error |-> error]
  /\ settled' = "fulfilled"
  /\ failure' = [stage |-> StageOf(pc), cause |-> cause]
  /\ producers' = [producers EXCEPT ![error.type] = @ \cup {StageOf(pc)}]
  /\ pc' = "returned"

\* a throw at the current position: caught by the enclosing try if there is
\* one, otherwise the promise convertImage returned rejects
Throw(e) ==
  IF CatchOf(pc) = "NONE"
  THEN /\ settled' = "rejected"
       /\ pc' = "returned"
       /\ failure' = [stage |-> StageOf(pc), cause |-> e]
       /\ UNCHANGED <<result, producers>>
  ELSE Fail([type |-> CatchOf(pc), message |-> MessageOf(e)], e)

\* ---------------------------------------------------------------- actions
\* the caller invokes convertImage(f); the previous call, if any, has returned
Start(f) ==
  /\ pc \in {"idle", "returned"}
  /\ pc' = "entry"
  /\ file' = f
  /\ bitmap' = NoBitmap
  /\ canvas' = NoCanvas
  /\ blob' = NoBlob
  /\ calls' = <<>>
  /\ result' = NoResult
  /\ settled' = "pending"
  /\ failure' = NoFailure
  /\ UNCHANGED <<mode, producers>>
  /\ UNCHANGED pageVars

\* the check for a missing file made after the file validation is entered
CheckFile_AfterValidate ==
  /\ pc = "entry"
  /\ calls' = Append(calls, "validateFile")
  /\ IF file = NoFile
     THEN Fail([type |-> "NO_FILE"], [type |-> "NO_FILE"])
     ELSE IF validateFile(file) # NoError
          THEN Fail(validateFile(file), validateFile(file))
          ELSE /\ pc' = "load"
               /\ UNCHANGED <<result, settled, failure, producers>>
  /\ UNCHANGED <<mode, file, bitmap, canvas, blob>>
  /\ UNCHANGED pageVars

\* if (!file) return NO_FILE
CheckFile ==
  /\ pc = "entry"
  /\ IF file = NoFile
     THEN Fail([type |-> "NO_FILE"], [type |-> "NO_FILE"])
     ELSE /\ pc' = "validate"
          /\ UNCHANGED <<result, settled, failure, producers>>
  /\ UNCHANGED <<mode, file, bitmap, canvas, blob, calls>>
  /\ UNCHANGED pageVars

\* const fileError = validateFile(file); if (fileError) return it
ValidateFile ==
  /\ pc = "validate"
  /\ calls' = Append(calls, "validateFile")
  /\ IF validateFile(file) # NoError
     THEN Fail(validateFile(file), validateFile(file))
     ELSE /\ pc' = "load"
          /\ UNCHANGED <<result, settled, failure, producers>>
  /\ UNCHANGED <<mode, file, bitmap, canvas, blob>>
  /\ UNCHANGED pageVars

\* try { bitmap = await loadImage(file) }: createImageBitmap is started
LoadImage ==
  /\ pc = "load"
  /\ calls' = Append(calls, "loadImage")
  /\ pc' = "awaitDecode"
  /\ UNCHANGED <<mode, file, bitmap, canvas, blob, result, settled, failure, producers>>
  /\ UNCHANGED pageVars

\* createImageBitmap resolves with a bitmap of some size
DecodeResolve(w, h) ==
  /\ pc = "awaitDecode"
  /\ bitmap' = [width |-> w, height |-> h, closed |-> 0]
  /\ pc' = "dims"
  /\ UNCHANGED <<mode, file, canvas, blob, calls, result, settled, failure, producers>>
  /\ UNCHANGED pageVars

\* createImageBitmap rejects: catch (e) returns DECODE_FAILED
DecodeReject(e) ==
  /\ pc = "awaitDecode"
  /\ Throw(e)
  /\ UNCHANGED <<mode, file, bitmap, canvas, blob, calls>>
  /\ UNCHANGED pageVars

\* the dimension guard without its return: the bitmap is closed and the call
\* goes on to composite
ValidateDimensions_NoReturn ==
  /\ pc = "dims"
  /\ calls' = Append(calls, "validateDimensions")
  /\ bitmap' = IF validateDimensions(bitmap.width, bitmap.height) # NoError
               THEN [bitmap EXCEPT !.closed = @ + 1]
               ELSE bitmap
  /\ pc' = "convert"
  /\ UNCHANGED <<mode, file, canvas, blob, result, settled, failure, producers>>
  /\ UNCHANGED pageVars

\* validateDimensions; on an error bitmap.close() and return it
ValidateDimensions ==
  /\ pc = "dims"
  /\ calls' = Append(calls, "validateDimensions")
  /\ LET dimensionError == validateDimensions(bitmap.width, bitmap.height)
     IN  IF dimensionError # NoError
         THEN /\ bitmap' = [bitmap EXCEPT !.closed = @ + 1]
              /\ Fail(dimensionError, dimensionError)
         ELSE /\ pc' = "convert"
              /\ UNCHANGED <<bitmap, result, settled, failure, producers>>
  /\ UNCHANGED <<mode, file, canvas, blob>>
  /\ UNCHANGED pageVars

\* the drawImage calls convertToStorySize makes for a bitmap
Draws(m, sourceWidth, sourceHeight) ==
  IF m = "crop" THEN CropDraws(sourceWidth, sourceHeight)
  ELSE BlurDraws(sourceWidth, sourceHeight)

\* try { canvas = convertToStorySize(bitmap); bitmap.close(); ...
\* ctx: whether getContext("2d") returned a context; without one
\* convertToStorySize throws and the catch is entered before bitmap.close()
ConvertToStorySize(ctx) ==
  /\ pc = "convert"
  /\ calls' = Append(calls, "convertToStorySize")
  /\ IF ctx
     THEN /\ canvas' = [width |-> OUTPUT_WIDTH, height |-> OUTPUT_HEIGHT,
                        draws |-> Draws(mode, bitmap.width, bitmap.height)]
          /\ bitmap' = [bitmap EXCEPT !.closed = @ + 1]
          /\ pc' = "toBlob"
          /\ UNCHANGED <<result, settled, failure, producers>>
     ELSE /\ Throw(ContextError)
          /\ UNCHANGED <<canvas, bitmap>>
  /\ UNCHANGED <<mode, file, blob>>
  /\ UNCHANGED pageVars

\* ... const blob = await canvasToJpegBlob(canvas): toBlob is started
CanvasToJpegBlob ==
  /\ pc = "toBlob"
  /\ calls' = Append(calls, "canvasToJpegBlob")
  /\ pc' = "awaitEncode"
  /\ UNCHANGED <<mode, file, bitmap, canvas, blob, result, settled, failure, producers>>
  /\ UNCHANGED pageVars

\* toBlob's callback fires with a blob: resolve(blob)
EncodeResolve ==
  /\ pc = "awaitEncode"
  /\ blob' = [type |-> "image/jpeg", quality |-> JPEG_QUALITY,
              width |-> canvas.width, height |-> canvas.height]
  /\ pc' = "name"
  /\ UNCHANGED <<mode, file, bitmap, canvas, calls, result, settled, failure, producers>>
  /\ UNCHANGED pageVars

\* toBlob's callback fires with null: reject(new Error("Failed to create blob"))
EncodeReject ==
  /\ pc = "awaitEncode"
  /\ Throw(BlobError)
  /\ UNCHANGED <<mode, file, bitmap, canvas, blob, calls>>
  /\ UNCHANGED pageVars

\* ... const filename = generateFilename(); return { success: true, blob, filename } }
GenerateFilename(now) ==
  /\ pc = "name"
  /\ calls' = Append(calls, "generateFilename")
  /\ result' = [success |-> TRUE, blob |-> blob, filename |-> generateFilename(now)]
  /\ settled' = "fulfilled"
  /\ pc' = "returned"
  /\ UNCHANGED <<mode, file, bitmap, canvas, blob, failure, producers>>
  /\ UNCHANGED pageVars

\* the steps of a call once it has started
Step ==
  \/ CheckFile
  \/ ValidateFile
  \/ LoadImage
  \/ \E w \in BitmapDims, h \in BitmapDims : DecodeResolve(w, h)
  \/ \E e \in DecodeErrors : DecodeReject(e)
  \/ ValidateDimensions
  \/ \E ctx \in BOOLEAN : ConvertToStorySize(ctx)
  \/ CanvasToJpegBlob
  \/ EncodeResolve
  \/ EncodeReject
  \/ \E now \in Instants : GenerateFilename(now)

Next ==
  \/ \E f \in Files : Start(f)
  \/ Step

Spec == Init /\ [][Next]_vars

\* the event loop runs every continuation, and the platform's decode and
\* encode callbacks fire
FairSpec == Spec /\ WF_vars(Step)

TypeOK ==
  /\ mode \in Modes
  /\ pc \in {"idle", "entry", "validate", "load", "awaitDecode", "dims", "convert",
             "toBlob", "awaitEncode", "name", "returned"}
  /\ file \in Files
  /\ settled \in {"pending", "fulfilled", "rejected"}
  /\ producers \in [ErrorTypes -> SUBSET Stages]

\* ------------------------------------------------- geometry specification
\* source sizes the compositor is applied to: all within the ceiling
GeomDims ==
  (1 .. SmallDim) \cup {9, 16, 270, 480, 607, OUTPUT_WIDTH, OUTPUT_HEIGHT, 2000, 4000,
                        MAX_PIXEL_DIMENSION - 1, MAX_PIXEL_DIMENSION}

\* a call that has validated its file, decoded a bitmap and passed the
\* dimension guard, about to call convertToStorySize
GeomInit ==
  /\ mode \in Modes
  /\ pc = "convert"
  /\ file = [size |-> MAX_FILE_SIZE, type |-> "image/jpeg"]
  /\ \E w \in GeomDims, h \in GeomDims : bitmap = [width |-> w, height |-> h, closed |-> 0]
  /\ canvas = NoCanvas
  /\ blob = NoBlob
  /\ calls = <<"validateFile", "loadImage", "validateDimensions">>
  /\ result = NoResult
  /\ settled = "pending"
  /\ failure = NoFailure
  /\ producers = [t \in ErrorTypes |-> {}]
  /\ PageInit

GeomNext == \E ctx \in BOOLEAN : ConvertToStorySize(ctx)

GeomSpec == GeomInit /\ [][GeomNext]_vars

\* ------------------------------------------------------- page component
\* The page (app/page.tsx) around convertImage.  A handler runs to its first
\* await without interruption, so a user event meets a convertImage call only
\* where that call is suspended: awaiting createImageBitmap or awaiting
\* toBlob.  A call that fails before loadImage returns within the task of the
\* click that started it.

pipelineVars == <<mode, pc, file, bitmap, canvas, blob, calls, result, settled, failure, producers>>

\* the files the user may pick: two that validate, one too large, one of a
\* type that is not allowed
PageFiles ==
  {[name |-> "a.jpg", size |-> MAX_FILE_SIZE, type |-> "image/jpeg"],
   [name |-> "b.png", size |-> MAX_FILE_SIZE - SizeSlack, type |-> "image/png"],
   [name |-> "c.jpg", size |-> MAX_FILE_SIZE + SizeSlack, type |-> "image/jpeg"],
   [name |-> "d.gif", size |-> MAX_FILE_SIZE, type |-> "image/gif"]}

\* disabled={!selectedFileName || status === "processing"}
ConvertEnabled == selectedFileName # NoName /\ status # "processing"

\* the reset button is rendered when (selectedFileName || status !== "idle")
ResetShown == selectedFileName # NoName \/ status # "idle"

\* the sequence without its i-th element
RemoveAt(seq, i) == SubSeq(seq, 1, i - 1) \o SubSeq(seq, i + 1, Len(seq))

\* handleFileChange: the picker reports a new selection f, or none
handleFileChange(f) ==
  /\ f # inputFile
  /\ inputFile' = f
  /\ IF f # NoFile
     THEN /\ selectedFileName' = f.name
          /\ status' = "idle"
          /\ pageError' = NoError
          /\ previewUrl' = [of |-> f.name]
     ELSE /\ selectedFileName' = NoName
          /\ previewUrl' = NoUrl
          /\ UNCHANGED <<status, pageError>>
  /\ UNCHANGED <<inflight, downloaded, pipelineVars>>

\* handleConvert up to its await: the click is possible only on an enabled
\* button; convertImage(file) runs to its first suspension, or to its return
\* when the file is missing or does not validate
handleConvert ==
  /\ ConvertEnabled
  /\ Len(inflight) < MaxInFlight
  /\ IF inputFile = NoFile
     THEN /\ pageError' = [type |-> "NO_FILE"]
          /\ status' = "error"
          /\ UNCHANGED inflight
     ELSE IF validateFile(inputFile) # NoError
          THEN /\ pageError' = validateFile(inputFile)
               /\ status' = "error"
               /\ UNCHANGED inflight
          ELSE /\ pageError' = NoError
               /\ status' = "processing"
               /\ inflight' = Append(inflight, [file |-> inputFile, at |-> "awaitDecode"])
  /\ UNCHANGED <<selectedFileName, previewUrl, inputFile, downloaded, pipelineVars>>

\* handleConvert after its await, on a failure: setError, setStatus("error")
ConvertFailed(i, e) ==
  /\ inflight' = RemoveAt(inflight, i)
  /\ pageError' = e
  /\ status' = "error"
  /\ UNCHANGED <<selectedFileName, previewUrl, inputFile, downloaded, pipelineVars>>

\* the i-th pending call's createImageBitmap rejects
PendingDecodeReject(i, e) ==
  /\ i \in 1..Len(inflight)
  /\ inflight[i].at = "awaitDecode"
  /\ ConvertFailed(i, [type |-> "DECODE_FAILED", message |-> MessageOf(e)])

\* the i-th pending call's createImageBitmap resolves: the dimension guard
\* and convertToStorySize run, and the call suspends again on toBlob
PendingDecodeResolve(i, w, h, ctx) ==
  /\ i \in 1..Len(inflight)
  /\ inflight[i].at = "awaitDecode"
  /\ IF validateDimensions(w, h) # NoError
     THEN ConvertFailed(i, validateDimensions(w, h))
     ELSE IF ~ctx
          THEN ConvertFailed(i, [type |-> "CONVERSION_FAILED",
                                 message |-> MessageOf(ContextError)])
          ELSE /\ inflight' = [inflight EXCEPT ![i].at = "awaitEncode"]
               /\ UNCHANGED <<status, pageError, selectedFileName, previewUrl, inputFile,
                              downloaded, pipelineVars>>

\* the i-th pending call's toBlob delivers null
PendingEncodeReject(i) ==
  /\ i \in 1..Len(inflight)
  /\ inflight[i].at = "awaitEncode"
  /\ ConvertFailed(i, [type |-> "CONVERSION_FAILED", message |-> MessageOf(BlobError)])

\* the i-th pending call's toBlob delivers a blob: the call returns a success
\* and handleConvert goes on to downloadBlob and setStatus("success")
PendingEncodeResolve(i, now) ==
  /\ i \in 1..Len(inflight)
  /\ inflight[i].at = "awaitEncode"
  /\ inflight' = RemoveAt(inflight, i)
  /\ downloaded' = [of |-> inflight[i].file.name, filename |-> generateFilename(now)]
  /\ status' = "success"
  /\ UNCHANGED <<pageError, selectedFileName, previewUrl, inputFile, pipelineVars>>

\* handleReset
handleReset ==
  /\ ResetShown
  /\ inputFile' = NoFile
  /\ selectedFileName' = NoName
  /\ status' = "idle"
  /\ pageError' = NoError
  /\ previewUrl' = NoUrl
  /\ UNCHANGED <<inflight, downloaded, pipelineVars>>

PageNext ==
  \/ \E f \in PageFiles \cup {NoFile} : handleFileChange(f)
  \/ handleConvert
  \/ handleReset
  \/ \E i \in 1..MaxInFlight, e \in DecodeErrors : PendingDecodeReject(i, e)
  \/ \E i \in 1..MaxInFlight, w \in BitmapDims, h \in BitmapDims, ctx \in BOOLEAN :
       PendingDecodeResolve(i, w, h, ctx)
  \/ \E i \in 1..MaxInFlight : PendingEncodeReject(i)
  \/ \E i \in 1..MaxInFlight, now \in Instants : PendingEncodeResolve(i, now)

PageSpec == Init /\ [][PageNext]_vars

\* ------------------------------------------------------------------ claims
Returned == pc = "returned"
Failed == Returned /\ settled = "fulfilled" /\ ~result.success
Done == Returned /\ settled = "fulfilled" /\ result.success

CallOrder == <<"validateFile", "loadImage", "validateDimensions",
               "convertToStorySize", "canvasToJpegBlob", "generateFilename">>

IsPrefix(s, t) == Len(s) <= Len(t) /\ \A i \in 1..Len(s) : s[i] = t[i]

Called(fn) == \E i \in 1..Len(calls) : calls[i] = fn

\* the stage the call has entered last
CurrentStage ==
  IF calls = <<>> THEN "validate"
  ELSE CASE Len(calls) = 1 -> "validate"
         [] Len(calls) = 2 -> "decode"
         [] Len(calls) = 3 -> "guard"
         [] Len(calls) = 4 -> "composite"
         [] Len(calls) = 5 -> "encode"
         [] OTHER -> "name"

\* C1: on every branch of convertImage, a bitmap that loadImage allocated has
\* been closed exactly once when the call returns.
C1_ClosedExactlyOnce ==
  (Returned /\ bitmap # NoBitmap) => bitmap.closed = 1

\* C2: the stages run in the order validate, decode, dimension guard,
\* composite, encode, name, each at most once; a failed stage ends the call
\* with that stage's error and no later stage is entered.
C2_StagesInOrder ==
  /\ IsPrefix(calls, CallOrder)
  /\ (file = NoFile /\ pc # "idle") => calls = <<>>
  /\ (file # NoFile /\ validateFile(file) # NoError) => Len(calls) <= 1
  /\ (bitmap # NoBitmap /\ validateDimensions(bitmap.width, bitmap.height) # NoError)
        => Len(calls) <= 3
  /\ failure # NoFailure =>
        /\ Failed
        /\ failure.stage = CurrentStage
        /\ result.error.type \in
             CASE failure.stage = "validate" ->
                    {"NO_FILE", "FILE_TOO_LARGE", "INVALID_MIME_TYPE"}
               [] failure.stage = "decode" -> {"DECODE_FAILED"}
               [] failure.stage = "guard" -> {"PIXEL_EXCEEDED"}
               [] OTHER -> {"CONVERSION_FAILED"}
  /\ Done => calls = CallOrder /\ failure = NoFailure
  /\ Failed => failure # NoFailure

C2_Witness ==
  /\ Failed
  /\ failure.stage = "encode"
  /\ calls = <<"validateFile", "loadImage", "validateDimensions",
               "convertToStorySize", "canvasToJpegBlob">>

\* C3: every started call ends in exactly one terminal outcome, a success
\* with blob and filename or a failure with one of the six variants, once the
\* decode and encode callbacks fire; the promise never rejects.
C3_AlwaysSettles ==
  /\ [](settled # "rejected")
  /\ (pc = "entry") ~>
       \/ Done /\ result.blob # NoBlob /\ result.filename # ""
       \/ Failed /\ result.error.type \in ErrorTypes

C3_Witness ==
  /\ Failed
  /\ result.error = [type |-> "DECODE_FAILED", message |-> "Unknown error"]

\* C4: a decoded image wider or taller than 4096 yields PIXEL_EXCEEDED with
\* maxDimension 4096 and the decoded size, and neither the compositor nor
\* the encoder is invoked; an image within 4096 by 4096 is never rejected
\* with PIXEL_EXCEEDED.
C4_PixelGuard ==
  bitmap # NoBitmap =>
    IF bitmap.width > 4096 \/ bitmap.height > 4096
    THEN /\ ~Called("convertToStorySize")
         /\ ~Called("canvasToJpegBlob")
         /\ canvas = NoCanvas
         /\ Returned =>
              /\ settled = "fulfilled"
              /\ result = [success |-> FALSE,
                           error |-> [type |-> "PIXEL_EXCEEDED", maxDimension |-> 4096,
                                      width |-> bitmap.width, height |-> bitmap.height]]
    ELSE Failed => result.error.type # "PIXEL_EXCEEDED"

C4_Witness ==
  /\ Failed
  /\ bitmap # NoBitmap
  /\ bitmap.width = 1080
  /\ bitmap.height = 4097
  /\ result.error.type = "PIXEL_EXCEEDED"

\* C5: a present file larger than 10485760 bytes yields FILE_TOO_LARGE with
\* maxSize 10485760 and its size, whatever its declared type; a file of
\* exactly 10485760 bytes is not rejected for its size.
C5_FileTooLarge ==
  (Returned /\ file # NoFile) =>
    IF file.size > 10485760
    THEN /\ settled = "fulfilled"
         /\ result = [success |-> FALSE,
                      error |-> [type |-> "FILE_TOO_LARGE", maxSize |-> 10485760,
                                 actualSize |-> file.size]]
    ELSE Failed => result.error.type # "FILE_TOO_LARGE"

C5_Witness ==
  /\ Failed
  /\ file = [size |-> 10485761, type |-> "image/gif"]
  /\ result.error.type = "FILE_TOO_LARGE"

\* C6: a present file of at most 10485760 bytes whose declared type is not
\* exactly image/jpeg or image/png yields INVALID_MIME_TYPE with the allowed
\* list and the declared type, and decode is never invoked.
C6_InvalidMimeType ==
  (file # NoFile /\ file.size <= 10485760 /\ file.type \notin {"image/jpeg", "image/png"}) =>
    /\ ~Called("loadImage")
    /\ bitmap = NoBitmap
    /\ Returned =>
         /\ settled = "fulfilled"
         /\ result = [success |-> FALSE,
                      error |-> [type |-> "INVALID_MIME_TYPE",
                                 allowed |-> <<"image/jpeg", "image/png">>,
                                 actual |-> file.type]]

C6_Witness ==
  /\ Failed
  /\ file = [size |-> 10485760, type |-> "IMAGE/JPEG"]
  /\ result.error.type = "INVALID_MIME_TYPE"

\* C7: a null input returns { success: false, error: { type: "NO_FILE" } }
\* as the first check, with no file validation, decode, compositing or
\* encoding invoked.
C7_NoFile ==
  (file = NoFile /\ pc # "idle") =>
    /\ pc \in {"entry", "returned"}
    /\ calls = <<>>
    /\ bitmap = NoBitmap
    /\ canvas = NoCanvas
    /\ blob = NoBlob
    /\ Returned =>
         /\ settled = "fulfilled"
         /\ result = [success |-> FALSE, error |-> [type |-> "NO_FILE"]]

C7_Witness ==
  /\ Failed
  /\ file = NoFile
  /\ result.error.type = "NO_FILE"
  /\ calls = <<>>

\* the error the failed stage handed over arrives unchanged: a validator's
\* error as returned, a thrown value as the variant of the catch that caught it
NotRewrapped ==
  Failed =>
    CASE failure.stage = "validate" ->
           result.error = IF file = NoFile THEN [type |-> "NO_FILE"] ELSE validateFile(file)
      [] failure.stage = "guard" ->
           result.error = validateDimensions(bitmap.width, bitmap.height)
      [] failure.stage = "decode" ->
           result.error = [type |-> "DECODE_FAILED", message |-> MessageOf(failure.cause)]
      [] OTHER ->
           result.error = [type |-> "CONVERSION_FAILED", message |-> MessageOf(failure.cause)]

\* C8 as stated: each of the six variants is produced at exactly one stage
\* (NO_FILE, FILE_TOO_LARGE, INVALID_MIME_TYPE by validation, DECODE_FAILED by
\* decode, PIXEL_EXCEEDED by the guard, CONVERSION_FAILED by one single
\* stage), and is never rewrapped.
C8_OneStagePerVariant ==
  /\ \A t \in ErrorTypes : Cardinality(producers[t]) <= 1
  /\ \A t \in {"NO_FILE", "FILE_TOO_LARGE", "INVALID_MIME_TYPE"} : producers[t] \subseteq {"validate"}
  /\ producers["DECODE_FAILED"] \subseteq {"decode"}
  /\ producers["PIXEL_EXCEEDED"] \subseteq {"guard"}
  /\ NotRewrapped

\* C8 as amended: NO_FILE, FILE_TOO_LARGE and INVALID_MIME_TYPE are produced
\* only by validation, DECODE_FAILED only by decode, PIXEL_EXCEEDED only by
\* the guard, and CONVERSION_FAILED only by the compositor and the encoder,
\* the two stages inside the one try block; an error is never rewrapped.
C8_StagesPerVariant ==
  /\ \A t \in {"NO_FILE", "FILE_TOO_LARGE", "INVALID_MIME_TYPE"} : producers[t] \subseteq {"validate"}
  /\ producers["DECODE_FAILED"] \subseteq {"decode"}
  /\ producers["PIXEL_EXCEEDED"] \subseteq {"guard"}
  /\ producers["CONVERSION_FAILED"] \subseteq {"composite", "encode"}
  /\ NotRewrapped

C8_Witness ==
  /\ producers["CONVERSION_FAILED"] = {"composite", "encode"}
  /\ producers["PIXEL_EXCEEDED"] = {"guard"}
  /\ Failed
  /\ failure.stage = "decode"

\* C9: crop-fill, for every source size within 1..4096: the source rectangle
\* drawn has aspect ratio exactly 1080/1920 in either branch, and the
\* destination is the whole 1080 by 1920 canvas.
C9_CropAspect ==
  (mode = "crop" /\ canvas # NoCanvas) =>
    /\ canvas.width = 1080
    /\ canvas.height = 1920
    /\ Len(canvas.draws) = 1
    /\ QMul(canvas.draws[1].src.w, QInt(1920)) = QMul(canvas.draws[1].src.h, QInt(1080))
    /\ canvas.draws[1].dest = [x |-> QInt(0), y |-> QInt(0), w |-> QInt(1080), h |-> QInt(1920)]

\* 4000 by 2000: the wider branch, 1125 of the 4000 columns kept
C9_Witness ==
  /\ mode = "crop"
  /\ canvas # NoCanvas
  /\ bitmap.width = 4000
  /\ bitmap.height = 2000
  /\ canvas.draws[1].src = [x |-> Q(2875, 2), y |-> QInt(0), w |-> QInt(1125), h |-> QInt(2000)]

\* C10: blur-pad-fit, for every source size within 1..4096: the foreground
\* destination rectangle lies within the canvas, is centred, and spans the
\* canvas fully in at least one axis.
C10_ForegroundFits ==
  (mode = "blur" /\ canvas # NoCanvas) =>
    LET r == canvas.draws[2].dest
    IN  /\ Len(canvas.draws) = 2
        /\ QLe(QInt(0), r.x)
        /\ QLe(QInt(0), r.y)
        /\ QLe(QAdd(r.x, r.w), QInt(1080))
        /\ QLe(QAdd(r.y, r.h), QInt(1920))
        /\ QAdd(QAdd(r.x, r.x), r.w) = QInt(1080)
        /\ QAdd(QAdd(r.y, r.y), r.h) = QInt(1920)
        /\ \/ r.w = QInt(1080) /\ r.x = QInt(0)
           \/ r.h = QInt(1920) /\ r.y = QInt(0)

\* 1920 by 1080: fitted to the width, 607.5 high, 656.25 from the top
C10_Witness ==
  /\ mode = "blur"
  /\ canvas # NoCanvas
  /\ bitmap.width = 1920
  /\ bitmap.height = 1080
  /\ canvas.draws[2].dest = [x |-> QInt(0), y |-> Q(2625, 4), w |-> QInt(1080), h |-> Q(1215, 2)]

\* C11: crop-fill, for every source whose aspect ratio already is 1080/1920
\* (width * 1920 = height * 1080): the source rectangle drawn is the whole
\* source, x = 0, y = 0, width = sourceWidth, height = sourceHeight.
C11_NothingCropped ==
  (mode = "crop" /\ canvas # NoCanvas /\ bitmap.width * 1920 = bitmap.height * 1080) =>
    canvas.draws[1].src = [x |-> QInt(0), y |-> QInt(0),
                           w |-> QInt(bitmap.width), h |-> QInt(bitmap.height)]

\* 270 by 480 is 9:16 and is drawn whole
C11_Witness ==
  /\ mode = "crop"
  /\ canvas # NoCanvas
  /\ bitmap.width = 270
  /\ bitmap.height = 480
  /\ canvas.draws[1].src.w = QInt(270)
  /\ canvas.draws[1].src.h = QInt(480)

\* C12: under every interleaving of file-change, convert-click and reset with
\* the completion of a pending conversion, at most one convertImage call is
\* in flight: the convert button cannot start a second one before the first
\* has returned.
C12_AtMostOneInFlight == Len(inflight) <= 1

====
